---- MODULE Spec2Model ----
(***************************************************************************)
(* SQL Server adapter of mcp-db-manager.  Three variants of the class      *)
(* SqlServerAdapter live in the repository:                                *)
(*   "dual"    src/unnamed/part_001  useNativeDriver chooses, per call,    *)
(*             between msnodesqlv8.query (direct) and an mssql pool        *)
(*   "native"  src/unnamed/part_002  msnodesqlv8.query only                *)
(*   "chained" src/src/db/sqlserver-adapter-cjs.js  init() tries the pool  *)
(*             and falls back to msnodesqlv8.query                         *)
(* The drivers (mssql, msnodesqlv8) are external: every call to one of     *)
(* them either fails with a message or succeeds with a value, chosen       *)
(* nondeterministically.                                                   *)
(*                                                                         *)
(* Text is modelled at the grain the code inspects it: a query is a        *)
(* sequence of one-character strings (offsets are 0-based positions in     *)
(* that sequence); text the code only appends or passes on is one element. *)
(* A driver message is a sequence of words and String.includes is          *)
(* membership of a word.                                                   *)
(***************************************************************************)
EXTENDS Integers, Sequences, FiniteSets, TLC

VARIABLES
    variant,               \* which of the three classes this instance is
    useNativeDriver,       \* part_001:31 (dual); fixed TRUE for "native"
    pool,                  \* part_001:24, cjs:12  pool handle or null
    usingDirectConnection, \* cjs:126,213  undefined / true / false
    config,                \* part_001:25, cjs:33  parameters of the pool, or undefined
    connectionString,      \* part_001:26, cjs:58  ODBC connection string of the direct calls
    openPools,             \* number of pools this adapter opened that are not closed
    last,                  \* the last call on the adapter: inputs, driver calls, outcome
    closed,                \* history: "no", or the backend that was active when the
                           \* last close() resolved, if no init() has resolved since
    closing                \* the close() calls that may overlap: where each one stands

vars == <<variant, useNativeDriver, pool, usingDirectConnection, config, connectionString,
          openPools, last, closed, closing>>

-----------------------------------------------------------------------------
(* Bounds of the model *)

MaxTail == 2      \* characters of a query after its leading keyword
MaxRows == 2      \* rows of a result collection returned by msnodesqlv8
MaxOpenPools == 2 \* init() is not called while this many pools are open
MaxCloseCalls == 2 \* close() calls on one adapter that may overlap

-----------------------------------------------------------------------------
(* JavaScript values *)

Undefined == [t |-> "undefined"]
Null      == [t |-> "null"]
NaN       == [t |-> "NaN"]
Num(n)    == [t |-> "number", n |-> n]
Str(s)    == [t |-> "string", s |-> s]            \* s: the characters of the string
Bool(b)   == [t |-> "boolean", b |-> b]
Rows(rs)  == [t |-> "array", rows |-> rs]
Obj(ra)   == [t |-> "object", rowsAffected |-> ra]   \* ra = Undefined: no such property
Err(m)    == [t |-> "error", message |-> m]
RunResult(c, l) == [t |-> "RunResult", changes |-> c, lastID |-> l]

Truthy(v) ==
    CASE v.t = "undefined" -> FALSE
      [] v.t = "null"      -> FALSE
      [] v.t = "NaN"       -> FALSE
      [] v.t = "number"    -> v.n # 0
      [] v.t = "string"    -> v.s # <<>>
      [] v.t = "boolean"   -> v.b
      [] OTHER             -> TRUE

\* Number(v) for the values a LastID column can hold (all truthy at the call site)
ToNumber(v) ==
    CASE v.t = "number" -> v
      [] v.t = "null"   -> Num(0)
      [] OTHER          -> NaN

\* v > 0 as JavaScript evaluates it on a number or NaN
GtZero(v) == v.t = "number" /\ v.n > 0

NULL == "null"
POOL == "pool"

-----------------------------------------------------------------------------
(* String functions used by the adapter *)

IsWhite(c) == c \in {" ", "\t", "\n"}

RECURSIVE TrimStart(_)
TrimStart(s) ==
    IF s # <<>> /\ IsWhite(Head(s)) THEN TrimStart(Tail(s)) ELSE s

RECURSIVE TrimEnd(_)
TrimEnd(s) ==
    IF s # <<>> /\ IsWhite(s[Len(s)]) THEN TrimEnd(SubSeq(s, 1, Len(s) - 1)) ELSE s

\* String.prototype.trim
Trim(s) == TrimEnd(TrimStart(s))

UpperChar(c) ==
    CASE c = "i" -> "I" [] c = "n" -> "N" [] c = "s" -> "S"
      [] c = "e" -> "E" [] c = "r" -> "R" [] c = "t" -> "T"
      [] c = "x" -> "X"
      [] OTHER   -> c

\* String.prototype.toUpperCase
ToUpperCase(s) == [i \in 1..Len(s) |-> UpperChar(s[i])]

\* String.prototype.startsWith
StartsWith(s, p) == Len(s) >= Len(p) /\ SubSeq(s, 1, Len(p)) = p

\* s.split(" ")[0]: the text before the first space
RECURSIVE SplitSpaceFirst(_)
SplitSpaceFirst(s) ==
    IF s = <<>> \/ Head(s) = " " THEN <<>> ELSE <<Head(s)>> \o SplitSpaceFirst(Tail(s))

\* String.prototype.includes on a message, at the grain of words
Includes(msg, w) == \E i \in DOMAIN msg : msg[i] = w

INSERT == <<"I", "N", "S", "E", "R", "T">>

\* offsets (0-based) of the '?' characters of a query, in order
PlaceholderOffsets(q) == { i \in 0..(Len(q) - 1) : q[i + 1] = "?" }

-----------------------------------------------------------------------------
(* Driver calls and their outcomes *)

DriverMsgs ==
    { <<"timeout">>, <<"named", "pipes">>, <<"getaddrinfo", "ENOTFOUND">>,
      <<"login", "failed">>, <<"instance", "unreachable">>, <<"driver", "missing">>,
      <<"boom">> }

DriverErrors == { Err(m) : m \in DriverMsgs }

IsErr(d) == d.t = "error"

\* In each call d is what the driver answered: an error or a value.
\* a call of msnodesqlv8.query(connectionString, text[, params], callback)
MsQuery(text, params, d) ==
    [api |-> "msnodesqlv8.query", text |-> text, params |-> params,
     inputs |-> <<>>, output |-> FALSE, result |-> d]

\* a call of pool.request().query(text) / .batch(text) after request.input / request.output
PoolQuery(api, text, inputs, output, d) ==
    [api |-> api, text |-> text, params |-> <<>>, inputs |-> inputs, output |-> output,
     result |-> d]

\* sql.connect(config), new sql.ConnectionPool(config).connect(), pool.close()
PoolCall(api, d) ==
    [api |-> api, text |-> <<>>, params |-> <<>>, inputs |-> <<>>, output |-> FALSE,
     result |-> d]

\* what the mssql request resolves with: result.recordset, result.output.insertedId
PoolResult(rs, id) == [t |-> "result", recordset |-> rs, insertedId |-> id]

\* the effect of one call on the adapter: the fields it leaves and what the caller sees
Effect(self, p, u, calls, outcome, value, log) ==
    [useNativeDriver |-> self.useNativeDriver, pool |-> p, usingDirectConnection |-> u,
     calls |-> calls, outcome |-> outcome, value |-> value, log |-> log]

Resolved(self, calls, value) ==
    Effect(self, self.pool, self.usingDirectConnection, calls, "resolved", value, <<>>)

Rejected(self, calls, prefix, msg, log) ==
    Effect(self, self.pool, self.usingDirectConnection, calls, "rejected",
           Err(prefix \o msg), log)

NotInitialized(self) == Rejected(self, <<>>, <<"Database not initialized">>, <<>>, <<>>)

-----------------------------------------------------------------------------
(* Construction *)

\* connectionInfo.driver: absent, "msnodesqlv8", or the "mssql" of the test script's config
DriverPrefs == {"none", "msnodesqlv8", "mssql"}

\* SqlServerConnectionInfo, with the outcome of the constructor's probe of the
\* native library (nativeAvailable); an optional field that is absent is Undefined
ConnectionInfo(driver, avail, server, user, password, port, trust, version, options) ==
    [driver |-> driver, nativeAvailable |-> avail, server |-> server,
     database |-> Str(<<"master">>), user |-> user, password |-> password,
     port |-> port, trustServerCertificate |-> trust, driverVersion |-> version,
     options |-> options]

\* the configuration of the test script: server\instance, user and password
ConnInfo(driver, avail) ==
    ConnectionInfo(driver, avail, Str(<<"H", "\\", "I">>), Str(<<"sa">>), Str(<<"pw">>),
                   Undefined, Undefined, Undefined, Undefined)

NoInfo == ConnInfo("none", TRUE)

\* part_001 constructor, lines 42-60: the value of useNativeDriver.  The field
\* starts false (line 31); the catch branch of the probe sets false as well.
SelectBackend(info) ==
    IF info.driver = "msnodesqlv8"
    THEN TRUE
    ELSE IF info.nativeAvailable THEN TRUE ELSE FALSE

\* String.prototype.split("\\"): the parts between the backslashes
RECURSIVE SplitBackslash(_)
SplitBackslash(s) ==
    IF ~Includes(s, "\\")
    THEN <<s>>
    ELSE LET i == CHOOSE k \in 1..Len(s) :
                      s[k] = "\\" /\ \A j \in 1..(k - 1) : s[j] # "\\"
         IN  <<SubSeq(s, 1, i - 1)>> \o SplitBackslash(SubSeq(s, i + 1, Len(s)))

\* the characters of `${v}` and of "text" + v
Text(v) ==
    CASE v.t = "string"    -> v.s
      [] v.t = "number"    -> <<ToString(v.n)>>
      [] v.t = "boolean"   -> IF v.b THEN <<"true">> ELSE <<"false">>
      [] v.t = "undefined" -> <<"undefined">>

\* part_001:63-71, cjs:21-30: serverName and instanceName parsed from the server string
ServerName(server) ==
    IF Includes(server.s, "\\") THEN Str(SplitBackslash(server.s)[1]) ELSE server

InstanceName(server) ==
    IF Includes(server.s, "\\") THEN Str(SplitBackslash(server.s)[2]) ELSE Undefined

\* connectionInfo.options: an object with its own entries, in order
OptionsObject(entries) == [t |-> "object", entries |-> entries]

\* part_001:81-85, cjs:38-42: config.options; absent properties are Undefined,
\* entries are the properties spread from connectionInfo.options
Options(info) ==
    LET instanceName == InstanceName(info.server) IN
    [trustServerCertificate |->
         IF info.trustServerCertificate.t \in {"undefined", "null"}
         THEN Bool(TRUE) ELSE info.trustServerCertificate,
     instanceName |-> IF Truthy(instanceName) THEN instanceName ELSE Undefined,
     entries |-> IF Truthy(info.options) THEN info.options.entries ELSE <<>>,
     trustedConnection |-> Undefined,
     enableArithAbort |-> Undefined]

\* faulty variant: a user without a password already selects SQL authentication
UserOnlyAuthentication(cfg, info) ==
    IF Truthy(info.user)
    THEN [cfg EXCEPT !.user = info.user, !.password = info.password]
    ELSE [cfg EXCEPT !.options.trustedConnection = Bool(TRUE),
                     !.options.enableArithAbort = Bool(TRUE)]

\* part_001:90-97, cjs:46-54
WithAuthentication(cfg, info) ==
    IF Truthy(info.user) /\ Truthy(info.password)
    THEN [cfg EXCEPT !.user = info.user, !.password = info.password]
    ELSE [cfg EXCEPT !.options.trustedConnection = Bool(TRUE),
                     !.options.enableArithAbort = Bool(TRUE)]

\* part_001:78-97: this.config of the dual class
ConfigDual(info) ==
    WithAuthentication(
        [server |-> Str(ServerName(info.server).s \o <<"\\">>
                        \o Text(InstanceName(info.server))),
         database |-> info.database,
         port |-> IF Truthy(info.port) THEN info.port ELSE Num(1433),
         driver |-> Undefined,
         options |-> Options(info),
         user |-> Undefined, password |-> Undefined], info)

\* cjs:33-54: this.config of the chained class
ConfigChained(info) ==
    WithAuthentication(
        [server |-> ServerName(info.server),
         database |-> info.database,
         port |-> IF Truthy(info.port) THEN info.port ELSE Num(1433),
         driver |-> Str(<<"msnodesqlv8">>),
         options |-> Options(info),
         user |-> Undefined, password |-> Undefined], info)

\* one "key=value;" of an ODBC connection string
Segment(key, value) == [key |-> key, value |-> value]

\* part_001:107-113, cjs:57-63: the connection string up to the authentication
BaseConnectionString(info, driverVersion) ==
    << Segment("Driver", <<"{ODBC Driver ">> \o Text(driverVersion)
                         \o <<" for SQL Server}">>),
       Segment("Server", Text(info.server)),
       Segment("Database", Text(info.database)) >>
    \o IF Truthy(info.user) /\ Truthy(info.password)
       THEN <<Segment("UID", Text(info.user)), Segment("PWD", Text(info.password))>>
       ELSE <<Segment("Trusted_Connection", <<"Yes">>)>>

\* part_001:104-131, part_002:46-73
PrepareConnectionString(info) ==
    LET driverVersion == IF Truthy(info.driverVersion)
                         THEN info.driverVersion ELSE Str(<<"17">>)
        entries == IF Truthy(info.options) THEN info.options.entries ELSE <<>>
    IN  BaseConnectionString(info, driverVersion)
        \o (IF Truthy(info.trustServerCertificate)
            THEN <<Segment("TrustServerCertificate", <<"Yes">>)>> ELSE <<>>)
        \o (IF Truthy(info.port) THEN <<Segment("Port", Text(info.port))>> ELSE <<>>)
        \o [k \in 1..Len(entries) |-> Segment(entries[k].key, Text(entries[k].value))]

\* cjs:57-63: this.directConnectionString
DirectConnectionString(info) == BaseConnectionString(info, Str(<<"17">>))

Construct(v, info) ==
    CASE v = "dual" ->
           [useNativeDriver |-> SelectBackend(info), pool |-> NULL,
            usingDirectConnection |-> "undefined",
            config |-> IF SelectBackend(info) THEN Undefined ELSE ConfigDual(info),
            connectionString |-> IF SelectBackend(info)
                                 THEN PrepareConnectionString(info) ELSE <<>>]
      [] v = "native" ->
           [useNativeDriver |-> TRUE, pool |-> NULL,
            usingDirectConnection |-> "undefined",
            config |-> Undefined,
            connectionString |-> PrepareConnectionString(info)]
      [] v = "chained" ->
           [useNativeDriver |-> FALSE, pool |-> NULL,
            usingDirectConnection |-> "undefined",
            config |-> ConfigChained(info),
            connectionString |-> DirectConnectionString(info)]

Variants == {"dual", "native", "chained"}

\* the construction inputs of each variant: only part_001 reads driver and probes
InfosFor(v) ==
    IF v = "dual"
    THEN { ConnInfo(d, a) : d \in DriverPrefs, a \in BOOLEAN }
    ELSE { NoInfo }

Self == [variant |-> variant, useNativeDriver |-> useNativeDriver, pool |-> pool,
         usingDirectConnection |-> usingDirectConnection]

\* the backend a query call is served by: part_001:220, 263; cjs:160-167
Backend(self) ==
    CASE self.variant = "dual" ->
           IF self.useNativeDriver THEN "direct"
           ELSE IF self.pool # NULL THEN "pooled" ELSE "none"
      [] self.variant = "native" -> "direct"
      [] self.variant = "chained" ->
           IF self.usingDirectConnection = "true" THEN "direct"
           ELSE IF self.pool # NULL THEN "pooled" ELSE "none"

\* the adapter runs its queries through msnodesqlv8.query
IsDirect(self) ==
    CASE self.variant = "dual"    -> self.useNativeDriver
      [] self.variant = "native"  -> TRUE
      [] self.variant = "chained" -> self.usingDirectConnection = "true"

-----------------------------------------------------------------------------
(* init() *)

ConnectPrefix == <<"Failed to connect to SQL Server: ">>

\* part_001:176-188, part_002:96-108: the lines logged by the catch block of init()
InitDiagnostics(msg) ==
    <<"connection error">> \o
    (IF Includes(msg, "named") THEN <<"named instance hint">>
     ELSE IF Includes(msg, "getaddrinfo") THEN <<"dns hint">>
     ELSE <<>>)

\* faulty variant: no diagnostic for a login failure
NoLoginDiagnostics(msg) ==
    <<"connection error">> \o
    (IF Includes(msg, "timeout") THEN <<"timeout hint">>
     ELSE IF Includes(msg, "named") \/ Includes(msg, "instance")
          THEN <<"named instance hint">>
     ELSE IF Includes(msg, "driver") \/ Includes(msg, "ODBC")
          THEN <<"driver hint">>
     ELSE <<>>)

\* cjs:135-154 provideConnectionDiagnostics, after the error line of cjs:93
ProvideConnectionDiagnostics(msg) ==
    <<"connection error">> \o
    (IF Includes(msg, "timeout") THEN <<"timeout hint">>
     ELSE IF Includes(msg, "named") \/ Includes(msg, "instance")
          THEN <<"named instance hint">>
     ELSE IF Includes(msg, "login") \/ Includes(msg, "password")
          THEN <<"authentication hint">>
     ELSE IF Includes(msg, "driver") \/ Includes(msg, "ODBC")
          THEN <<"driver hint">>
     ELSE <<>>)

\* part_001:197-211, part_002:117-131 testConnection: the probe call
TestConnection(d) == MsQuery(<<"SELECT 1 AS TestConnection">>, <<>>, d)

\* faulty variant: the targeted hint is put into the message of the error thrown
HintedInitNative(self, d) ==
    IF IsErr(d)
    THEN Rejected(self, <<TestConnection(d)>>, ConnectPrefix,
                  d.message \o Tail(InitDiagnostics(d.message)),
                  InitDiagnostics(d.message))
    ELSE Resolved(self, <<TestConnection(d)>>, Undefined)

\* part_001:144-156 and 174-191, part_002:78-112: init() through msnodesqlv8.
\* d is the outcome of the probe.
InitNative(self, d) ==
    IF IsErr(d)
    THEN Rejected(self, <<TestConnection(d)>>, ConnectPrefix, d.message,
                  InitDiagnostics(d.message))
    ELSE Resolved(self, <<TestConnection(d)>>, Undefined)

\* faulty variant: a failed pool connect switches the instance to the native driver
FallbackInitMssql(self, d) ==
    LET call == PoolCall("ConnectionPool.connect", d) IN
    IF IsErr(d)
    THEN [Rejected(self, <<call>>, ConnectPrefix, d.message, InitDiagnostics(d.message))
            EXCEPT !.useNativeDriver = TRUE]
    ELSE Effect(self, POOL, self.usingDirectConnection, <<call>>, "resolved",
                Undefined, <<>>)

\* faulty variant: the handle is set before the connect has resolved and stays
\* set when it rejects
EagerHandleInitMssql(self, d) ==
    LET call == PoolCall("ConnectionPool.connect", d) IN
    IF IsErr(d)
    THEN [Rejected(self, <<call>>, ConnectPrefix, d.message, InitDiagnostics(d.message))
            EXCEPT !.pool = POOL]
    ELSE Effect(self, POOL, self.usingDirectConnection, <<call>>, "resolved",
                Undefined, <<>>)

\* part_001:157-173 and 174-191: init() through mssql.  d is the outcome of connect().
InitMssql(self, d) ==
    LET call == PoolCall("ConnectionPool.connect", d) IN
    IF IsErr(d)
    THEN Rejected(self, <<call>>, ConnectPrefix, d.message, InitDiagnostics(d.message))
    ELSE Effect(self, POOL, self.usingDirectConnection, <<call>>, "resolved",
                Undefined, <<>>)

\* faulty variant: the direct probe is tried before the pool
ProbeFirstInitChained(self, d1, d2) ==
    LET connect == PoolCall("sql.connect", d1)
        probe   == MsQuery(<<"SELECT @@VERSION AS Version">>, <<>>, d2)
    IN  IF ~IsErr(d2)
        THEN Effect(self, self.pool, "true", <<probe>>, "resolved", Undefined, <<>>)
        ELSE IF ~IsErr(d1)
        THEN Effect(self, POOL, self.usingDirectConnection, <<probe, connect>>,
                    "resolved", Undefined, <<>>)
        ELSE Rejected(self, <<probe, connect>>, ConnectPrefix, d2.message,
                      ProvideConnectionDiagnostics(d2.message))

\* cjs:69-130: init() of the chained variant.  d1 is the outcome of sql.connect,
\* d2 that of the probe of connectWithMsnodesqlv8.
InitChained(self, d1, d2) ==
    LET connect == PoolCall("sql.connect", d1)
        probe   == MsQuery(<<"SELECT @@VERSION AS Version">>, <<>>, d2)
    IN  IF ~IsErr(d1)
        THEN Effect(self, POOL, self.usingDirectConnection, <<connect>>,
                    "resolved", Undefined, <<>>)
        ELSE IF ~IsErr(d2)
        THEN Effect(self, self.pool, "true", <<connect, probe>>, "resolved",
                    Undefined, <<>>)
        ELSE Rejected(self, <<connect, probe>>, ConnectPrefix, d2.message,
                      ProvideConnectionDiagnostics(d2.message))

InitEffect(self, d1, d2) ==
    CASE self.variant = "dual" ->
           IF self.useNativeDriver THEN InitNative(self, d1) ELSE InitMssql(self, d1)
      [] self.variant = "native"  -> InitNative(self, d1)
      [] self.variant = "chained" -> InitChained(self, d1, d2)

-----------------------------------------------------------------------------
(* close() *)

\* pool.close() awaited: a rejection leaves close() before the handle is nulled
\* and reaches the caller as the driver's own error
ClosePool(self, d, flagAfter) ==
    IF IsErr(d)
    THEN Effect(self, self.pool, self.usingDirectConnection,
                <<PoolCall("pool.close", d)>>, "rejected", d, <<>>)
    ELSE Effect(self, NULL, flagAfter, <<PoolCall("pool.close", d)>>, "resolved",
                Undefined, <<>>)

\* faulty variant: the pool is closed and the handle kept
HandleKeptCloseDual(self, d) ==
    IF self.useNativeDriver
    THEN Resolved(self, <<>>, Undefined)
    ELSE IF self.pool # NULL
    THEN [ClosePool(self, d, self.usingDirectConnection) EXCEPT !.pool = self.pool]
    ELSE Resolved(self, <<>>, Undefined)

\* part_001:497-505
CloseDual(self, d) ==
    IF self.useNativeDriver
    THEN Resolved(self, <<>>, Undefined)
    ELSE IF self.pool # NULL
    THEN ClosePool(self, d, self.usingDirectConnection)
    ELSE Resolved(self, <<>>, Undefined)

\* part_002:286-289
CloseNative(self) == Resolved(self, <<>>, Undefined)

\* cjs:207-214
CloseChained(self, d) ==
    IF self.pool # NULL
    THEN ClosePool(self, d, "false")
    ELSE Effect(self, self.pool, "false", <<>>, "resolved", Undefined, <<>>)

CloseEffect(self, d) ==
    CASE self.variant = "dual"    -> CloseDual(self, d)
      [] self.variant = "native"  -> CloseNative(self)
      [] self.variant = "chained" -> CloseChained(self, d)

-----------------------------------------------------------------------------
(* Placeholders *)

\* part_001:276, 410, cjs:177: query.replace(/\?/g, (_, i) => `@param${i}`).
\* The second argument of a replace callback is the offset of the match.
PreparedQuery(q) ==
    [k \in 1..Len(q) |-> IF q[k] = "?" THEN "@param" \o ToString(k - 1) ELSE q[k]]

\* part_001:271-273, 405-407, cjs:173-175: request.input(`param${index}`, param)
Inputs(params) ==
    [k \in 1..Len(params) |-> [name |-> "param" \o ToString(k - 1), value |-> params[k]]]

\* part_001:436-448, part_002:253-264 prepareNativeQuery / prepareQuery
PrepareNativeQuery(q, params) ==
    IF Len(params) = 0
    THEN [preparedQuery |-> q, preparedParams |-> <<>>]
    ELSE [preparedQuery |-> q, preparedParams |-> params]

-----------------------------------------------------------------------------
(* all() *)

QueryPrefix  == <<"SQL Server query error: ">>
DirectPrefix == <<"SQL Server direct query error: ">>
BatchPrefix  == <<"SQL Server batch error: ">>

\* faulty variant: the native path refuses to run without a pool, as the mssql path does
GuardedAllWithNativeDriver(self, q, params, d) ==
    LET p    == PrepareNativeQuery(q, params)
        call == MsQuery(p.preparedQuery, p.preparedParams, d)
    IN  IF self.pool = NULL
        THEN NotInitialized(self)
        ELSE IF IsErr(d)
        THEN Rejected(self, <<call>>, QueryPrefix, d.message, <<>>)
        ELSE Resolved(self, <<call>>, IF Truthy(d) THEN d ELSE Rows(<<>>))

\* part_001:230-254, part_002:139-157
AllWithNativeDriver(self, q, params, d) ==
    LET p    == PrepareNativeQuery(q, params)
        call == MsQuery(p.preparedQuery, p.preparedParams, d)
    IN  IF IsErr(d)
        THEN Rejected(self, <<call>>, QueryPrefix, d.message, <<>>)
        ELSE Resolved(self, <<call>>, IF Truthy(d) THEN d ELSE Rows(<<>>))

\* part_001:267-282, cjs:170-183: the pool path of all(), entered with a pool
AllThroughPool(self, q, params, d) ==
    LET call == PoolQuery("request.query", PreparedQuery(q), Inputs(params), FALSE, d) IN
    IF IsErr(d)
    THEN Rejected(self, <<call>>, QueryPrefix, d.message, <<>>)
    ELSE Resolved(self, <<call>>, d.recordset)

\* part_001:259-283
AllWithMssql(self, q, params, d) ==
    IF self.pool = NULL
    THEN NotInitialized(self)
    ELSE AllThroughPool(self, q, params, d)

\* cjs:189-202: the params are not handed to the driver
AllDirect(self, q, params, d) ==
    LET call == MsQuery(q, <<>>, d) IN
    IF IsErr(d)
    THEN Rejected(self, <<call>>, DirectPrefix, d.message, <<>>)
    ELSE Resolved(self, <<call>>, d)

\* cjs:159-184
AllChained(self, q, params, d) ==
    IF self.pool = NULL /\ self.usingDirectConnection # "true"
    THEN NotInitialized(self)
    ELSE IF self.usingDirectConnection = "true"
    THEN AllDirect(self, q, params, d)
    ELSE AllThroughPool(self, q, params, d)

\* part_001:219-225
AllEffect(self, q, params, d) ==
    CASE self.variant = "dual" ->
           IF self.useNativeDriver
           THEN AllWithNativeDriver(self, q, params, d)
           ELSE AllWithMssql(self, q, params, d)
      [] self.variant = "native"  -> AllWithNativeDriver(self, q, params, d)
      [] self.variant = "chained" -> AllChained(self, q, params, d)

-----------------------------------------------------------------------------
(* run() *)

\* part_001:310, 414, part_002:170: query.trim().toUpperCase().startsWith("INSERT")
IsInsert(q) == StartsWith(ToUpperCase(Trim(q)), INSERT)

\* part_001:333-340, part_002:193-200: lastID out of the driver's results
NativeLastID(d) ==
    IF d.t = "array" /\ Len(d.rows) > 0 /\ Truthy(d.rows[Len(d.rows)].LastID)
    THEN ToNumber(d.rows[Len(d.rows)].LastID)
    ELSE Num(0)

\* faulty variant: a numeric result is not taken as the count
RowsAffectedOnlyChanges(d) ==
    IF d.t = "object" /\ d.rowsAffected # Undefined THEN d.rowsAffected ELSE Num(0)

\* part_001:368-378, part_002:228-238: changes of a statement that is no INSERT
NativeChanges(d) ==
    IF d.t \in {"number", "NaN"}
    THEN d
    ELSE IF d.t = "object" /\ d.rowsAffected # Undefined
    THEN d.rowsAffected
    ELSE Num(0)

\* part_001:305-388, part_002:165-248
RunWithNativeDriver(self, q, params, d) ==
    IF IsInsert(q)
    THEN LET p    == PrepareNativeQuery(q \o <<"; SELECT SCOPE_IDENTITY() AS LastID">>,
                                        params)
             call == MsQuery(p.preparedQuery, p.preparedParams, d)
             id   == NativeLastID(d)
         IN  IF IsErr(d)
             THEN Rejected(self, <<call>>, QueryPrefix, d.message, <<>>)
             ELSE Resolved(self, <<call>>,
                           RunResult(IF GtZero(id) THEN Num(1) ELSE Num(0), id))
    ELSE LET p    == PrepareNativeQuery(q, params)
             call == MsQuery(p.preparedQuery, p.preparedParams, d)
         IN  IF IsErr(d)
             THEN Rejected(self, <<call>>, QueryPrefix, d.message, <<>>)
             ELSE Resolved(self, <<call>>, RunResult(NativeChanges(d), Num(0)))

\* part_001:559-565
GetAffectedRows(q, lastID) ==
    LET queryType == ToUpperCase(SplitSpaceFirst(Trim(q))) IN
    IF queryType = INSERT /\ GtZero(lastID) THEN Num(1) ELSE Num(0)

\* part_001:393-431
RunWithMssql(self, q, params, d) ==
    IF self.pool = NULL
    THEN NotInitialized(self)
    ELSE LET insert == IsInsert(q)
             text   == IF insert
                       THEN PreparedQuery(q) \o <<"; SELECT @insertedId = SCOPE_IDENTITY();">>
                       ELSE PreparedQuery(q)
             call   == PoolQuery("request.query", text, Inputs(params), insert, d)
             lastID == IF insert /\ Truthy(d.insertedId) THEN d.insertedId ELSE Num(0)
         IN  IF IsErr(d)
             THEN Rejected(self, <<call>>, QueryPrefix, d.message, <<>>)
             ELSE Resolved(self, <<call>>, RunResult(GetAffectedRows(q, lastID), lastID))

\* part_001:291-300
RunEffect(self, q, params, d) ==
    CASE self.variant = "dual" ->
           IF self.useNativeDriver
           THEN RunWithNativeDriver(self, q, params, d)
           ELSE RunWithMssql(self, q, params, d)
      [] self.variant = "native" -> RunWithNativeDriver(self, q, params, d)

-----------------------------------------------------------------------------
(* exec() *)

\* part_001:466-476, part_002:271-281
ExecWithNativeDriver(self, q, d) ==
    IF IsErr(d)
    THEN Rejected(self, <<MsQuery(q, <<>>, d)>>, BatchPrefix, d.message, <<>>)
    ELSE Resolved(self, <<MsQuery(q, <<>>, d)>>, Undefined)

\* faulty variant: the driver's own error reaches the caller of exec()
RethrowingExecWithMssql(self, q, d) ==
    LET call == PoolQuery("request.batch", q, <<>>, FALSE, d) IN
    IF self.pool = NULL
    THEN NotInitialized(self)
    ELSE IF IsErr(d)
    THEN Effect(self, self.pool, self.usingDirectConnection, <<call>>, "rejected", d, <<>>)
    ELSE Resolved(self, <<call>>, Undefined)

\* part_001:481-492
ExecWithMssql(self, q, d) ==
    LET call == PoolQuery("request.batch", q, <<>>, FALSE, d) IN
    IF self.pool = NULL
    THEN NotInitialized(self)
    ELSE IF IsErr(d)
    THEN Rejected(self, <<call>>, BatchPrefix, d.message, <<>>)
    ELSE Resolved(self, <<call>>, Undefined)

\* part_001:455-461
ExecEffect(self, q, d) ==
    CASE self.variant = "dual" ->
           IF self.useNativeDriver
           THEN ExecWithNativeDriver(self, q, d)
           ELSE ExecWithMssql(self, q, d)
      [] self.variant = "native" -> ExecWithNativeDriver(self, q, d)

-----------------------------------------------------------------------------
(* Inputs *)

Leads     == { <<>>, <<" ">> }
Keywords  == { <<>>, INSERT, <<"i", "n", "s", "e", "r", "t">> }
TailChars == { " ", "\t", "?", "x" }
Tails     == UNION { [1..n -> TailChars] : n \in 0..MaxTail }

\* query texts: optional leading blank, optional INSERT keyword, then any tail
Queries == { l \o k \o t : l \in Leads, k \in Keywords, t \in Tails }

\* the queries of the lifecycle specification
LifeQueries == { <<"x", "?">>, INSERT \o <<" ", "?">> }

ParamValues == { "a", "b" }

\* parameter lists: none, or one value per placeholder
ParamsFor(q) ==
    { <<>> } \cup [1..Cardinality(PlaceholderOffsets(q)) -> ParamValues]

Row(v) == [LastID |-> v]

LastIDValues == { Null, Num(7), Num(-3) }

RowSeqs == UNION { [1..n -> { Row(v) : v \in LastIDValues }] : n \in 0..MaxRows }

\* what msnodesqlv8.query can hand its callback as results (declared any[] | any)
DirectResults ==
    { Undefined, Num(3), Obj(Num(2)), Obj(Undefined) } \cup { Rows(rs) : rs \in RowSeqs }

\* what an mssql request can resolve with
PoolResults ==
    { PoolResult(rs, id) : rs \in { Rows(<<>>), Rows(<<Row(Num(7))>>) },
                           id \in { Undefined, Null, Num(7), Num(-3) } }

\* the outcome of a connect, probe, batch or close: an error or success
Done == { Undefined } \cup DriverErrors

\* the outcomes of the driver call of a query method, Rs being the results
\* msnodesqlv8 may hand back
QueryOutcomes(self, Rs) ==
    DriverErrors \cup (IF IsDirect(self) THEN Rs ELSE PoolResults)

\* the driver results of the lifecycle: one of each shape
LifeDirectResults ==
    { Undefined, Num(3), Obj(Num(2)), Rows(<<>>), Rows(<<Row(Num(7))>>) }

-----------------------------------------------------------------------------
(* The adapter as a state machine *)

Call(op, info, q, params, e) ==
    [op |-> op, info |-> info, query |-> q, params |-> params, calls |-> e.calls,
     outcome |-> e.outcome, value |-> e.value, log |-> e.log]

Idle(op, info) ==
    [op |-> op, info |-> info, query |-> <<>>, params |-> <<>>, calls |-> <<>>,
     outcome |-> "resolved", value |-> Undefined, log |-> <<>>]

\* the pools the driver calls of one operation opened: each
\* new sql.ConnectionPool(config).connect() that resolves is a pool of its own
\* (part_001:169); sql.connect(config) resolves with the one process-wide pool
\* of the mssql module, which is new when this adapter holds none (cjs:104)
Opened(self, calls) ==
    Cardinality({ k \in DOMAIN calls :
                    /\ ~IsErr(calls[k].result)
                    /\ \/ calls[k].api = "ConnectionPool.connect"
                       \/ calls[k].api = "sql.connect" /\ self.pool = NULL })

\* the pools they closed: part_001:502, cjs:209
Released(calls) ==
    Cardinality({ k \in DOMAIN calls :
                    calls[k].api = "pool.close" /\ ~IsErr(calls[k].result) })

Apply(e) ==
    /\ useNativeDriver' = e.useNativeDriver
    /\ pool' = e.pool
    /\ usingDirectConnection' = e.usingDirectConnection
    /\ openPools' = openPools + Opened(Self, e.calls) - Released(e.calls)
    /\ UNCHANGED <<variant, config, connectionString>>

\* no close() call has started
NoCloseCalls == [i \in 1..MaxCloseCalls |-> [pc |-> "idle", called |-> FALSE]]

\* new SqlServerAdapter(connectionInfo)
Init ==
    \E v \in Variants : \E info \in InfosFor(v) :
        LET c == Construct(v, info) IN
        /\ variant = v
        /\ useNativeDriver = c.useNativeDriver
        /\ pool = c.pool
        /\ usingDirectConnection = c.usingDirectConnection
        /\ config = c.config
        /\ connectionString = c.connectionString
        /\ openPools = 0
        /\ last = Idle("new", info)
        /\ closed = "no"
        /\ closing = NoCloseCalls

InitOp ==
    /\ openPools < MaxOpenPools
    /\ \E d1 \in Done, d2 \in Done :
        LET e == InitEffect(Self, d1, d2) IN
        /\ Apply(e)
        /\ last' = Call("init", NoInfo, <<>>, <<>>, e)
        /\ closed' = IF e.outcome = "resolved" THEN "no" ELSE closed
        /\ UNCHANGED closing

AllOp(Qs, Rs) ==
    \E q \in Qs : \E params \in ParamsFor(q) : \E d \in QueryOutcomes(Self, Rs) :
        LET e == AllEffect(Self, q, params, d) IN
        /\ Apply(e)
        /\ last' = Call("all", NoInfo, q, params, e)
        /\ UNCHANGED <<closed, closing>>

RunOp(Qs, Rs) ==
    /\ variant # "chained"
    /\ \E q \in Qs : \E params \in ParamsFor(q) : \E d \in QueryOutcomes(Self, Rs) :
        LET e == RunEffect(Self, q, params, d) IN
        /\ Apply(e)
        /\ last' = Call("run", NoInfo, q, params, e)
        /\ UNCHANGED <<closed, closing>>

ExecOp(Qs) ==
    /\ variant # "chained"
    /\ \E q \in Qs : \E d \in Done :
        LET e == ExecEffect(Self, q, d) IN
        /\ Apply(e)
        /\ last' = Call("exec", NoInfo, q, <<>>, e)
        /\ UNCHANGED <<closed, closing>>

CloseOp ==
    \E d \in Done :
        LET e == CloseEffect(Self, d) IN
        /\ Apply(e)
        /\ last' = Call("close", NoInfo, <<>>, <<>>, e)
        /\ closed' = IF e.outcome = "resolved" THEN Backend(Self) ELSE closed
        /\ UNCHANGED closing

Next ==
    \/ InitOp
    \/ AllOp(LifeQueries, LifeDirectResults)
    \/ RunOp(LifeQueries, LifeDirectResults)
    \/ ExecOp(LifeQueries)
    \/ CloseOp

\* any sequence of calls on one adapter, each call finished before the next starts
Spec == Init /\ [][Next]_vars

\* an adapter that was constructed and on which init() was called once
InitQuery ==
    \E v \in Variants : \E info \in InfosFor(v) : \E d1 \in Done, d2 \in Done :
        LET c == Construct(v, info)
            self == [variant |-> v, useNativeDriver |-> c.useNativeDriver,
                     pool |-> c.pool,
                     usingDirectConnection |-> c.usingDirectConnection]
            e == InitEffect(self, d1, d2)
        IN  /\ variant = v
            /\ useNativeDriver = c.useNativeDriver
            /\ pool = e.pool
            /\ usingDirectConnection = e.usingDirectConnection
            /\ config = c.config
            /\ connectionString = c.connectionString
            /\ openPools = Opened(self, e.calls)
            /\ last = Idle("init", NoInfo)
            /\ closed = "no"
            /\ closing = NoCloseCalls

AllOnce  == last.op = "init" /\ AllOp(Queries, DirectResults)
RunOnce  == last.op = "init" /\ RunOp(Queries, DirectResults)
ExecOnce == last.op = "init" /\ ExecOp(Queries)

NextQuery ==
    \/ AllOnce
    \/ RunOnce
    \/ ExecOnce

\* one query call, over every query text, on an adapter after its init()
SpecQuery == InitQuery /\ [][NextQuery]_vars

\* the values of the optional fields of SqlServerConnectionInfo
Servers == { Str(<<"H">>), Str(<<"H", "\\", "I">>), Str(<<"H", "\\", "I", "\\", "J">>) }
Users == { Undefined, Str(<<>>), Str(<<"sa">>) }
Passwords == { Undefined, Str(<<>>), Str(<<"pw">>) }
Ports == { Undefined, Num(1500) }
TrustFlags == { Undefined, Bool(TRUE), Bool(FALSE) }
DriverVersions == { Undefined, Str(<<"18">>) }
\* options whose keys are none of those the adapter sets itself
OptionsObjects == { Undefined, OptionsObject(<<[key |-> "Encrypt", value |-> Str(<<"yes">>)]>>) }

AllInfosFor(v) ==
    { ConnectionInfo(i.driver, i.nativeAvailable, s, u, p, port, t, dv, o) :
        i \in InfosFor(v), s \in Servers, u \in Users, p \in Passwords, port \in Ports,
        t \in TrustFlags, dv \in DriverVersions, o \in OptionsObjects }

\* new SqlServerAdapter(connectionInfo), over every connectionInfo
InitConfig ==
    \E v \in Variants : \E info \in AllInfosFor(v) :
        LET c == Construct(v, info) IN
        /\ variant = v
        /\ useNativeDriver = c.useNativeDriver
        /\ pool = c.pool
        /\ usingDirectConnection = c.usingDirectConnection
        /\ config = c.config
        /\ connectionString = c.connectionString
        /\ openPools = 0
        /\ last = Idle("new", info)
        /\ closed = "no"
        /\ closing = NoCloseCalls

\* the init() that follows the construction and connects with its parameters;
\* the call record keeps the connectionInfo the adapter was constructed from
ConnectOnce ==
    /\ last.op = "new"
    /\ \E d1 \in Done, d2 \in Done :
        LET e == InitEffect(Self, d1, d2) IN
        /\ Apply(e)
        /\ last' = Call("init", last.info, <<>>, <<>>, e)
        /\ closed' = IF e.outcome = "resolved" THEN "no" ELSE closed
        /\ UNCHANGED closing

NextConfig == ConnectOnce

\* construction from any connectionInfo, followed by one init()
SpecConfig == InitConfig /\ [][NextConfig]_vars

\* close() would find a pool to close: part_001:498-501, cjs:208
HoldsPool(self) ==
    CASE self.variant = "dual"    -> ~self.useNativeDriver /\ self.pool # NULL
      [] self.variant = "native"  -> FALSE
      [] self.variant = "chained" -> self.pool # NULL

\* close() up to its await: with a pool it calls pool.close() and suspends
\* (part_001:501-502, cjs:208-209); without one it runs to its end
CloseStart(i) ==
    /\ closing[i].pc = "idle"
    /\ IF HoldsPool(Self)
       THEN /\ closing' = [closing EXCEPT ![i] = [pc |-> "awaiting", called |-> TRUE]]
            /\ UNCHANGED <<variant, useNativeDriver, pool, usingDirectConnection, config,
                           connectionString, openPools, last, closed>>
       ELSE LET e == CloseEffect(Self, Undefined) IN
            /\ Apply(e)
            /\ last' = Call("close", NoInfo, <<>>, <<>>, e)
            /\ closed' = IF e.outcome = "resolved" THEN Backend(Self) ELSE closed
            /\ closing' = [closing EXCEPT ![i] = [pc |-> e.outcome, called |-> FALSE]]

\* close() from its await on: pool.close() answered d; the handle is set to
\* null after a resolved close and left as it is when the await throws
\* (part_001:502-503, cjs:209-213).  The pool is closed by the first
\* pool.close() that resolves.
CloseResume(i) ==
    /\ closing[i].pc = "awaiting"
    /\ \E d \in Done :
        LET e == ClosePool(Self, d, IF variant = "chained"
                                    THEN "false" ELSE usingDirectConnection) IN
        /\ useNativeDriver' = e.useNativeDriver
        /\ pool' = e.pool
        /\ usingDirectConnection' = e.usingDirectConnection
        /\ openPools' = IF ~IsErr(d) /\ pool # NULL THEN openPools - 1 ELSE openPools
        /\ UNCHANGED <<variant, config, connectionString>>
        /\ last' = Call("close", NoInfo, <<>>, <<>>, e)
        /\ closed' = IF e.outcome = "resolved" THEN Backend(Self) ELSE closed
        /\ closing' = [closing EXCEPT ![i].pc = e.outcome]

NextClose ==
    \/ \E i \in 1..MaxCloseCalls : CloseStart(i)
    \/ \E i \in 1..MaxCloseCalls : CloseResume(i)

\* close() calls that may overlap, on an adapter after its init(): a call can
\* start while another is suspended in its await
SpecClose == InitQuery /\ [][NextClose]_vars

-----------------------------------------------------------------------------
(* Properties *)

IsQueryOp(op) == op \in {"all", "run", "exec"}

\* the last call went to the mssql request of the pool
ThroughPool == last.calls # <<>> /\ last.calls[1].api = "request.query"

\* the last call went to msnodesqlv8.query
ThroughNative == last.calls # <<>> /\ last.calls[1].api = "msnodesqlv8.query"

\* the offset of the k-th (k = 1..N) placeholder of q
KthOffset(q, k) ==
    CHOOSE o \in PlaceholderOffsets(q) :
        Cardinality({ x \in PlaceholderOffsets(q) : x < o }) = k - 1

NotInitializedError == Err(<<"Database not initialized">>)

\* C1: on the pooled backend, all() and run() called with as many values as the
\* query has placeholders send a text whose k-th placeholder is the named
\* parameter under which the k-th value was bound, the names pairwise distinct.
C1_PlaceholdersBoundInOrder ==
    (/\ last.op \in {"all", "run"}
     /\ ThroughPool
     /\ Len(last.params) = Cardinality(PlaceholderOffsets(last.query)))
    => LET call == last.calls[1]
           N    == Len(last.params)
       IN  /\ Len(call.inputs) = N
           /\ \A k \in 1..N :
                /\ call.inputs[k].value = last.params[k]
                /\ call.text[KthOffset(last.query, k) + 1] = "@" \o call.inputs[k].name
           /\ \A j, k \in 1..N : j # k => call.inputs[j].name # call.inputs[k].name

\* C2: an explicit driver is honoured whatever the probe says (msnodesqlv8 gives
\* the direct backend, mssql the pooled one); the probe decides when none is given.
C2_ExplicitDriverHonoured ==
    (last.op = "new" /\ variant = "dual")
    => CASE last.info.driver = "msnodesqlv8" -> useNativeDriver
         [] last.info.driver = "mssql"       -> ~useNativeDriver
         [] OTHER -> useNativeDriver = last.info.nativeAvailable

\* C3 as stated: no call changes a flag that selects the backend.
C3_FlagNeverChanges ==
    [][ /\ useNativeDriver' = useNativeDriver
        /\ usingDirectConnection' = usingDirectConnection ]_vars

\* C3 amended: useNativeDriver never changes after construction; the chained
\* variant's usingDirectConnection changes only in an init() that resolves after
\* the pool attempt failed and the probe succeeded (to true) and in a close()
\* that resolves (to false).
C3_FlagChangesOnlyInChainedInitAndClose ==
    [][ /\ useNativeDriver' = useNativeDriver
        /\ usingDirectConnection' # usingDirectConnection
           => /\ variant = "chained"
              /\ last'.outcome = "resolved"
              /\ \/ /\ last'.op = "init"
                    /\ usingDirectConnection' = "true"
                    /\ Len(last'.calls) = 2
                    /\ IsErr(last'.calls[1].result)
                    /\ ~IsErr(last'.calls[2].result)
                 \/ /\ last'.op = "close"
                    /\ usingDirectConnection' = "false" ]_vars

C3_Witness ==
    /\ variant = "chained"
    /\ last.op = "close"
    /\ closed = "direct"
    /\ usingDirectConnection = "false"

\* C4: the chained variant never holds a pool while its direct-connection flag is set.
C4_AtMostOneBackend ==
    variant = "chained" => ~(pool # NULL /\ usingDirectConnection = "true")

\* C5: init() of the chained variant calls sql.connect first and probes
\* msnodesqlv8 only after that failed; it resolves when either succeeds and
\* rejects, with the probe's message, only when both fail.
C5_ChainedInitOrder ==
    (variant = "chained" /\ last.op = "init" /\ last.calls # <<>>)
    => LET c == last.calls IN
       /\ c[1].api = "sql.connect"
       /\ IF ~IsErr(c[1].result)
          THEN Len(c) = 1 /\ last.outcome = "resolved"
          ELSE /\ Len(c) = 2
               /\ c[2].api = "msnodesqlv8.query"
               /\ IF ~IsErr(c[2].result)
                  THEN last.outcome = "resolved"
                  ELSE /\ last.outcome = "rejected"
                       /\ last.value = Err(ConnectPrefix \o c[2].result.message)

C5_Witness ==
    /\ variant = "chained"
    /\ last.op = "init"
    /\ Len(last.calls) = 2
    /\ IsErr(last.calls[1].result)
    /\ last.outcome = "resolved"

\* C6: on the pooled backend, once close() has resolved and until an init()
\* resolves, the handle is null and every all(), run() and exec() rejects with
\* "Database not initialized" without a call to the driver.
C6_PooledClosedNotInitialized ==
    (\/ variant = "dual" /\ ~useNativeDriver /\ closed # "no"
     \/ variant = "chained" /\ closed = "pooled")
    => /\ pool = NULL
       /\ IsQueryOp(last.op)
          => /\ last.outcome = "rejected"
             /\ last.value = NotInitializedError
             /\ last.calls = <<>>

C6_Witness ==
    /\ variant = "dual"
    /\ closed = "pooled"
    /\ last.op = "run"
    /\ last.value = NotInitializedError

\* the outcome of the last call is that of its one call to msnodesqlv8.query
ServedByNative ==
    /\ ThroughNative
    /\ Len(last.calls) = 1
    /\ last.outcome = IF IsErr(last.calls[1].result) THEN "rejected" ELSE "resolved"

\* C7 as stated: after a close() on the direct backend, in every variant, a
\* query method still issues its query to msnodesqlv8 and returns its outcome.
C7_DirectCallableAfterClose ==
    (closed = "direct" /\ IsQueryOp(last.op)) => ServedByNative

\* C7 amended: that holds for the variants selected at construction (part_001
\* with useNativeDriver, part_002); in the chained variant close() clears the
\* flag, and all() after it rejects with "Database not initialized" without a
\* call to the driver until an init() resolves.
C7_DirectCallableAfterCloseUnlessChained ==
    (closed = "direct" /\ IsQueryOp(last.op))
    => IF variant = "chained"
       THEN /\ last.outcome = "rejected"
            /\ last.value = NotInitializedError
            /\ last.calls = <<>>
       ELSE ServedByNative

C7_Witness ==
    /\ closed = "direct"
    /\ variant = "dual"
    /\ last.op = "all"
    /\ last.outcome = "resolved"
    /\ ThroughNative

\* a statement whose first word, after leading white space, is INSERT in any case
InsertStatement(q) ==
    LET u == ToUpperCase(TrimStart(q)) IN
    StartsWith(u, INSERT) /\ (Len(u) = Len(INSERT) \/ IsWhite(u[Len(INSERT) + 1]))

\* the identity value the backend reported to the last run(): the insertedId
\* output of the pool, the LastID of the final element of the native results
ReportedIdentity ==
    LET r == last.calls[1].result IN
    IF ThroughPool THEN r.insertedId
    ELSE IF r.t = "array" /\ Len(r.rows) > 0 THEN r.rows[Len(r.rows)].LastID
    ELSE Undefined

\* C8: a successful run() of an INSERT statement returns lastID > 0 and
\* changes = 1 when the backend reported a (positive) identity value, and
\* lastID = 0 when it reported none, on both backends.
C8_InsertReportsIdentity ==
    (last.op = "run" /\ last.outcome = "resolved" /\ InsertStatement(last.query))
    => /\ GtZero(ReportedIdentity)
          => GtZero(last.value.lastID) /\ last.value.changes = Num(1)
       /\ ReportedIdentity \in {Undefined, Null}
          => last.value.lastID = Num(0)

\* the text begins, after leading white space, with INSERT in any case
BeginsWithInsert(q) == StartsWith(ToUpperCase(TrimStart(q)), INSERT)

\* C9 as stated: a successful run() of a statement that does not begin with
\* INSERT returns {changes: 0, lastID: 0} whatever the driver handed back.
C9_NonInsertReportsZero ==
    (last.op = "run" /\ last.outcome = "resolved" /\ ~BeginsWithInsert(last.query))
    => last.value = RunResult(Num(0), Num(0))

\* C9 amended: lastID is 0 on both backends and changes is 0 on the pooled
\* backend; on the direct backend changes is the driver's result when that is
\* a number, its rowsAffected property when it has one, and 0 otherwise.
C9_NonInsertLastIDZeroChangesFromDriver ==
    (last.op = "run" /\ last.outcome = "resolved" /\ ~BeginsWithInsert(last.query))
    => LET r == last.calls[1].result IN
       /\ last.value.lastID = Num(0)
       /\ last.value.changes =
            IF ThroughNative /\ r.t \in {"number", "NaN"} THEN r
            ELSE IF ThroughNative /\ r.t = "object" /\ r.rowsAffected # Undefined
            THEN r.rowsAffected
            ELSE Num(0)

C9_Witness ==
    /\ last.op = "run"
    /\ last.outcome = "resolved"
    /\ ~BeginsWithInsert(last.query)
    /\ ThroughNative
    /\ last.calls[1].result = Num(3)
    /\ last.value = RunResult(Num(3), Num(0))

\* C10: init() on the direct backend issues the one probe query; it resolves
\* exactly when the probe succeeds, and rejects with "Failed to connect to SQL
\* Server: " followed by the driver's message, whatever was logged.
C10_DirectInitProbes ==
    (last.op = "init" /\ (variant = "native" \/ (variant = "dual" /\ useNativeDriver)))
    => /\ Len(last.calls) = 1
       /\ last.calls[1].api = "msnodesqlv8.query"
       /\ last.calls[1].text = <<"SELECT 1 AS TestConnection">>
       /\ LET d == last.calls[1].result IN
          IF IsErr(d)
          THEN /\ last.outcome = "rejected"
               /\ last.value = Err(<<"Failed to connect to SQL Server: ">> \o d.message)
          ELSE last.outcome = "resolved"

C10_Witness ==
    /\ last.op = "init"
    /\ variant = "dual"
    /\ useNativeDriver
    /\ last.outcome = "rejected"
    /\ Len(last.log) = 2

\* what the driver answered to the last of the calls the operation made
LastAnswer == last.calls[Len(last.calls)].result

\* the message prefixes of the error category of each operation
CategoryPrefixes(op) ==
    CASE op = "init" -> {ConnectPrefix}
      [] op = "all"  -> {QueryPrefix, DirectPrefix}
      [] op = "run"  -> {QueryPrefix}
      [] op = "exec" -> {BatchPrefix}

\* C11: when the driver fails during init(), all(), run() or exec(), the call
\* rejects with a new error of the operation's category, whose message is the
\* category prefix followed by the driver's message, and never with the
\* driver's own error; run() makes one driver call, so a failure of the
\* appended identity statement is that one query error.
C11_DriverFailuresWrapped ==
    (/\ last.op \in {"init", "all", "run", "exec"}
     /\ last.calls # <<>>
     /\ IsErr(LastAnswer))
    => /\ last.outcome = "rejected"
       /\ last.value # LastAnswer
       /\ \E p \in CategoryPrefixes(last.op) : last.value = Err(p \o LastAnswer.message)
       /\ last.op = "run" => Len(last.calls) = 1

C11_Witness ==
    /\ last.op = "run"
    /\ ThroughPool
    /\ last.calls[1].output
    /\ IsErr(LastAnswer)
    /\ last.value = Err(QueryPrefix \o LastAnswer.message)

\* C12: close() always resolves and leaves the pool handle null; with an open
\* pool on the pooled backend it calls the pool's close once, and on the direct
\* backend or without an open pool it makes no driver call.
C12_CloseAlwaysResolves ==
    [][ last'.op = "close"
        => /\ last'.outcome = "resolved"
           /\ pool' = NULL
           /\ IF Backend(Self) = "pooled"
              THEN /\ Len(last'.calls) = 1
                   /\ last'.calls[1].api = "pool.close"
              ELSE last'.calls = <<>> ]_vars

\* C13: on the direct backend, in every variant, all() and run() hand
\* msnodesqlv8.query the caller's text with its '?' characters as they are
\* (for run() of an INSERT with the identity statement appended and nothing
\* else changed) and the caller's params, the same values in the same order.
C13_DirectPassesQueryAndParams ==
    (last.op \in {"all", "run"} /\ ThroughNative)
    => LET call == last.calls[1] IN
       /\ call.params = last.params
       /\ call.text = IF last.op = "run" /\ BeginsWithInsert(last.query)
                      THEN last.query \o <<"; SELECT SCOPE_IDENTITY() AS LastID">>
                      ELSE last.query

\* the adapter connects through a pool built from config
PooledSelected == variant = "chained" \/ (variant = "dual" /\ ~useNativeDriver)

\* the adapter connects, or falls back to connecting, with the connection string
DirectSelected == variant \in {"native", "chained"} \/ (variant = "dual" /\ useNativeDriver)

\* the connection string has a segment key=value / a segment with that key
HasSegment(key, value) ==
    \E k \in DOMAIN connectionString :
        connectionString[k].key = key /\ connectionString[k].value = value

HasKey(key) == \E k \in DOMAIN connectionString : connectionString[k].key = key

\* user and password are both supplied (each a non-empty string)
CredentialsSupplied(info) == Truthy(info.user) /\ Truthy(info.password)

\* C14: when user and password are both supplied, the parameters of the
\* selected backend carry them and request no trusted connection; otherwise
\* they request a trusted connection and carry neither user nor password.  The
\* same rule holds for the config of the pool and for the connection string.
C14_IntegratedAuthIffNoCredentials ==
    last.op \in {"new", "init"}
    => LET info == last.info IN
       /\ PooledSelected
          => IF CredentialsSupplied(info)
             THEN /\ config.user = info.user
                  /\ config.password = info.password
                  /\ config.options.trustedConnection = Undefined
             ELSE /\ config.user = Undefined
                  /\ config.password = Undefined
                  /\ config.options.trustedConnection = Bool(TRUE)
       /\ DirectSelected
          => IF CredentialsSupplied(info)
             THEN /\ HasSegment("UID", info.user.s)
                  /\ HasSegment("PWD", info.password.s)
                  /\ ~HasKey("Trusted_Connection")
             ELSE /\ HasSegment("Trusted_Connection", <<"Yes">>)
                  /\ ~HasKey("UID")
                  /\ ~HasKey("PWD")

C14_Witness ==
    /\ last.op = "init"
    /\ variant = "dual"
    /\ ~useNativeDriver
    /\ last.calls[1].api = "ConnectionPool.connect"
    /\ last.info.user = Str(<<"sa">>)
    /\ last.info.password = Undefined
    /\ config.user = Undefined
    /\ config.options.trustedConnection = Bool(TRUE)

\* C15: when port and trustServerCertificate are omitted, the parameters of the
\* selected backend use port 1433 (the connection string names no other port)
\* and have the server certificate trusted, on the pooled and the direct
\* backend alike; trustServerCertificate = false leaves it untrusted on both.
C15_DefaultPortAndTrust ==
    last.op \in {"new", "init"}
    => LET info == last.info IN
       /\ info.port = Undefined
          => /\ PooledSelected => config.port = Num(1433)
             /\ DirectSelected => (HasKey("Port") => HasSegment("Port", <<"1433">>))
       /\ info.trustServerCertificate = Undefined
          => /\ PooledSelected => config.options.trustServerCertificate = Bool(TRUE)
             /\ DirectSelected => HasSegment("TrustServerCertificate", <<"Yes">>)
       /\ info.trustServerCertificate = Bool(FALSE)
          => /\ PooledSelected => config.options.trustServerCertificate = Bool(FALSE)
             /\ DirectSelected => ~HasKey("TrustServerCertificate")

\* v is an integer that is not negative
NonNegativeInteger(v) == v.t = "number" /\ v.n \in Nat

\* C16: every result of run() has changes >= 0 and lastID >= 0, both integers,
\* for every statement, on both backends, whatever the driver returned.
C16_RunResultNonNegative ==
    (last.op = "run" /\ last.outcome = "resolved")
    => /\ NonNegativeInteger(last.value.changes)
       /\ NonNegativeInteger(last.value.lastID)

\* the last call is an init() that failed in its call to msnodesqlv8
DirectInitFailed ==
    /\ last.op = "init"
    /\ last.outcome = "rejected"
    /\ last.calls[Len(last.calls)].api = "msnodesqlv8.query"

\* the message contains one of the substrings the claim names
NamesKnownCause(msg) ==
    \E w \in {"named", "instance", "timeout", "login", "driver"} : Includes(msg, w)

\* C17 as stated: an init() that fails on the direct backend with a message
\* containing 'named', 'instance', 'timeout', 'login' or 'driver' logs one
\* diagnostic besides the error line and signals the same connection error.
C17_DirectInitFailureHinted ==
    (DirectInitFailed /\ NamesKnownCause(LastAnswer.message))
    => /\ Len(last.log) = 2
       /\ last.value = Err(ConnectPrefix \o LastAnswer.message)

\* C17 amended: the error signaled is the connection error with the driver's
\* message whether or not a diagnostic is logged; the chained variant logs one
\* diagnostic for each of the five substrings, part_001 and part_002 log one
\* exactly when the message contains 'named' or 'getaddrinfo'.
C17_DirectInitFailureHintedPerVariant ==
    DirectInitFailed
    => LET msg == LastAnswer.message IN
       /\ last.value = Err(ConnectPrefix \o msg)
       /\ Len(last.log) \in {1, 2}
       /\ IF variant = "chained"
          THEN NamesKnownCause(msg) => Len(last.log) = 2
          ELSE Len(last.log) = 2 <=> (Includes(msg, "named") \/ Includes(msg, "getaddrinfo"))

C17_Witness ==
    /\ DirectInitFailed
    /\ variant = "chained"
    /\ Includes(LastAnswer.message, "login")
    /\ last.log = <<"connection error", "authentication hint">>

\* the positions of the backslashes of a server string
Backslashes(s) == { k \in DOMAIN s : s[k] = "\\" }

\* C18: the config of the pool is derived from the server string: for
\* host\instance it addresses host and names instance as the instance; for a
\* string without a backslash its server is the string as given and it names
\* no instance.
C18_ConfigHostAndInstance ==
    (last.op \in {"new", "init"} /\ PooledSelected)
    => LET s == last.info.server.s IN
       /\ Backslashes(s) = {}
          => /\ config.server = last.info.server
             /\ config.options.instanceName = Undefined
       /\ Cardinality(Backslashes(s)) = 1
          => LET k == CHOOSE k \in Backslashes(s) : TRUE IN
             /\ config.server = Str(SubSeq(s, 1, k - 1))
             /\ config.options.instanceName = Str(SubSeq(s, k + 1, Len(s)))

\* C19: on the pooled backend, for every query to which run() appends the
\* identity clause, the result has changes = 1 exactly when lastID > 0.
C19_ChangesIffIdentity ==
    (/\ last.op = "run"
     /\ ThroughPool
     /\ last.calls[1].output
     /\ last.outcome = "resolved")
    => (last.value.changes = Num(1) <=> GtZero(last.value.lastID))

\* C20: on a pooled adapter, after any sequence of init() and close() calls,
\* the pools it opened and did not close are at most one, the one its handle
\* references; after a close() that resolved none is open.
C20_NoPoolLeaked ==
    PooledSelected => openPools = IF pool # NULL THEN 1 ELSE 0

\* a pooled or chained adapter that holds no pool and has no direct connection
Uninitialized == PooledSelected /\ pool = NULL /\ usingDirectConnection # "true"

\* C21: an init() that rejects on an adapter that holds no backend leaves the
\* pool handle null and, in the chained variant, the direct-connection flag
\* unset (a rejecting init() changes neither); every all(), run() and exec()
\* on such an adapter rejects with "Database not initialized" without a call
\* to a driver.
C21_FailedInitLeavesUninitialized ==
    [][ /\ (last'.op = "init" /\ last'.outcome = "rejected")
           => /\ pool' = pool
              /\ usingDirectConnection' = usingDirectConnection
              /\ Uninitialized => Uninitialized'
        /\ (Uninitialized /\ IsQueryOp(last'.op))
           => /\ last'.outcome = "rejected"
              /\ last'.value = NotInitializedError
              /\ last'.calls = <<>>
              /\ Uninitialized' ]_vars

C21_Witness ==
    /\ variant = "chained"
    /\ last.op = "init"
    /\ last.outcome = "rejected"
    /\ Len(last.calls) = 2
    /\ pool = NULL
    /\ usingDirectConnection = "undefined"

\* the close() calls that invoked the pool's close
PoolCloseInvocations == Cardinality({ i \in DOMAIN closing : closing[i].called })

AllCloseCallsDone == \A i \in DOMAIN closing : closing[i].pc \in {"resolved", "rejected"}

\* C22: when close() calls on a pooled adapter overlap, the pool's close is
\* invoked once and no more, and when the calls have completed the handle is
\* null and each of them resolved.
C22_OverlappingCloseOnce ==
    PooledSelected
    => /\ PoolCloseInvocations <= 1
       /\ AllCloseCallsDone
          => /\ pool = NULL
             /\ \A i \in DOMAIN closing : closing[i].pc = "resolved"

====
